---- MODULE Spec2Model ----
(***************************************************************************)
(* Main-process lifecycle coordinator of the desktop shell                 *)
(* (application.ts, here src/unnamed/part_001) and the start-document      *)
(* builder (src/app/javascripts/main/indexBuilder.ts).                     *)
(*                                                                         *)
(* The process is a single cooperative event loop.  A macrotask (an        *)
(* Electron event, an I/O completion) runs to its end, then every queued   *)
(* promise reaction (microtask) runs before the next macrotask starts.     *)
(* The model keeps that queue explicitly: macrotask actions are enabled    *)
(* only while the queue is empty.                                          *)
(***************************************************************************)
EXTENDS Naturals, Sequences, FiniteSets

\* Largest number of get-extensions-server-address requests a run issues.
MaxRequests == 2

\* Longest hostName and baseUrl, in tokens, given to a direct call of buildIndexFile.
MaxTextLen == 2

VARIABLES
  platform,          \* process.platform: "darwin", "win32" or "linux"
  lockAvailable,     \* whether no other process holds the single-instance lock
  minimizeToTray,    \* trayManager.shouldMinimizeToTray()
  webRoot,           \* state.webRoot, text as a sequence of tokens
  alive,             \* the process has not exited
  initialized,       \* initializeApplication has run
  isPrimaryInstance, \* state.isPrimaryInstance
  willQuitApp,       \* state.willQuitApp
  windowState,       \* state.windowState: "undefined" or "set"
  window,            \* the BrowserWindow of the bundle
  windowsCreated,    \* calls of createWindowState
  teardownCalls,     \* calls of the teardown callback
  ipcHandlers,       \* IPC channels with a registered listener
  ipcRegistrations,  \* calls of registerIpcEventListeners
  trayIcon,          \* trayManager.createTrayIcon() has been called
  serverStarts,      \* calls of createExtensionsServer
  hostNamePromise,   \* the promise createExtensionsServer returned
  writeState,        \* fs.promises.writeFile: "idle", "pending", "done", "failed"
  writeContent,      \* the text handed to writeFile
  startDocument,     \* the file at startUrl: "absent" or its text
  writeOpened,       \* writeFile has opened (and so truncated) the file
  extensionsServerAddress, \* state.extensionsServerAddress
  dialogs,           \* calls of dialog.showMessageBoxSync
  quitCalls,         \* calls of app.quit
  quitting,          \* Electron is quitting (app.quit or a user quit in progress)
  readyFired,        \* the 'ready' event has been delivered
  finishPc,          \* finishApplicationInitialization: "idle", "awaiting", "done", "threw"
  loadURLCalls,      \* calls of window.loadURL
  microtasks,        \* queued promise reactions, oldest first
  ipcRequests,       \* get-extensions-server-address invocations, in order
  updateChecks,      \* updateManager.checkForUpdate() has been called
  allClosedPending,  \* the last window closed and 'window-all-closed' is due
  uncaughtErrors,    \* exceptions thrown synchronously out of an event handler
  unhandledRejections, \* rejected promises nobody handles
  lastEvent,         \* the handler that ran last, and the window it found
  buildHost,         \* hostName given to a direct call of buildIndexFile
  buildBase,         \* baseUrl given to a direct call of buildIndexFile
  buildResult        \* what that call returned, "none" before it

inputVars == <<platform, lockAvailable, minimizeToTray, webRoot>>
writeVars == <<writeState, writeContent, startDocument, writeOpened>>
serverVars == <<serverStarts, hostNamePromise, writeVars, extensionsServerAddress>>
windowVars == <<windowState, window, windowsCreated, teardownCalls, trayIcon,
                allClosedPending>>
ipcVars == <<ipcHandlers, ipcRegistrations, ipcRequests>>
quitVars == <<willQuitApp, quitCalls, quitting>>
buildVars == <<buildHost, buildBase, buildResult>>
vars == <<inputVars, buildVars, serverVars, windowVars, ipcVars, quitVars, alive, initialized,
          isPrimaryInstance, dialogs, readyFired, finishPc, loadURLCalls, microtasks,
          updateChecks, uncaughtErrors, unhandledRejections, lastEvent>>

----------------------------------------------------------------------------
(* Text.  A text is a sequence of tokens; a placeholder and a replacement   *)
(* pattern of String.prototype.replace are one token each.                  *)

HostToken == "{{EXT_SERVER_HOST_NAME}}"
BaseToken == "{{BASE_URL}}"

\* index.html, the template imported by indexBuilder.ts.
index ==
  << "<script src='http://", HostToken, "'></script><img src='", BaseToken,
     "/a.png'><img src='", BaseToken, "/b.png'>" >>

HostNames == { <<"ext.local:9999">>, <<"127.0.0.1:45653">> }
\* The third is the directory /opt/$&/app: "$&" is a legal directory name.
WebRoots == { <<"/app/root">>, <<"/srv/app">>, <<"/opt/", "$&", "/app">> }
Platforms == {"darwin", "win32", "linux"}

RECURSIVE Flatten(_)
Flatten(ss) == IF ss = <<>> THEN <<>> ELSE Head(ss) \o Flatten(Tail(ss))

\* GetSubstitution of ECMAScript: the replacement text with its $-patterns
\* expanded.  The template has no capture groups, so $1..$99 stay as they are.
\* The pattern "dollar, backtick" (the text before the match) is not among the
\* tokens of this model: a backtick cannot be written in a string here.
GetSubstitution(replacement, matched, after) ==
  Flatten([i \in 1..Len(replacement) |->
            CASE replacement[i] = "$$" -> <<"$">>
              [] replacement[i] = "$&" -> matched
              [] replacement[i] = "$'" -> after
              [] OTHER -> <<replacement[i]>>])

\* text.replace(token, replacement) with a string pattern: the first occurrence only.
ReplaceFirst(text, token, replacement) ==
  LET hits == {i \in 1..Len(text) : text[i] = token}
  IN IF hits = {} THEN text
     ELSE LET i == CHOOSE k \in hits : \A j \in hits : k <= j
          IN SubSeq(text, 1, i - 1)
               \o GetSubstitution(replacement, <<token>>,
                                  SubSeq(text, i + 1, Len(text)))
               \o SubSeq(text, i + 1, Len(text))

\* text.replace(/token/g, replacement): every occurrence, the result not rescanned.
ReplaceAll(text, token, replacement) ==
  Flatten([i \in 1..Len(text) |->
            IF text[i] = token
            THEN GetSubstitution(replacement, <<token>>,
                                 SubSeq(text, i + 1, Len(text)))
            ELSE <<text[i]>>])

buildIndexFile(hostName, baseUrl) ==
  ReplaceAll(ReplaceFirst(index, HostToken, hostName), BaseToken, baseUrl)

\* The template with the host name at the host placeholder and the base path at
\* every base-path placeholder, both taken literally.
LiteralDocument(template, hostName, baseUrl) ==
  Flatten([i \in 1..Len(template) |->
            CASE template[i] = HostToken -> hostName
              [] template[i] = BaseToken -> baseUrl
              [] OTHER -> <<template[i]>>])

\* The file at startUrl when the process starts: none, or the document an
\* earlier launch wrote there.
OldDocument == buildIndexFile(<<"ext.local:9999">>, <<"/app/root">>)
StartDocuments == {"absent", OldDocument}

\* Whether a placeholder is left in the text.
HasPlaceholder(text) ==
  \E i \in 1..Len(text) : text[i] \in {HostToken, BaseToken}

----------------------------------------------------------------------------
(* Values *)

Pending == [status |-> "pending", value |-> <<>>]
Resolved(v) == [status |-> "resolved", value |-> v]
Rejected(reason) == [status |-> "rejected", value |-> <<reason>>]
NoPromise == [status |-> "none", value |-> <<>>]

NoWindow == [exists |-> FALSE, visible |-> FALSE, minimized |-> FALSE,
             focused |-> FALSE, url |-> "none"]

AllIpcMessages ==
  {"show-app-menu", "initial-data-loaded", "major-data-change",
   "get-extensions-server-address", "get-use-system-menu-bar-preference",
   "get-web-root"}

\* What a promise of this program may reject with: an Error (or a string), or a
\* value without properties.
RejectionReasons == {"Error", "undefined", "null"}

\* Whether reason.toString() can be called.
HasToString(reason) == reason \notin {"undefined", "null"}

isMac == platform = "darwin"
isWindows == platform = "win32"
isLinux == platform = "linux"

Job(kind, id) == [kind |-> kind, id |-> id]

\* The record of the last handler: its name and, for the handlers that act on the
\* window, the window as it was when the handler started.
Ev(name) == [name |-> name, pre |-> NoWindow]
EvOn(name, w) == [name |-> name, pre |-> w]


----------------------------------------------------------------------------
(* Electron's BrowserWindow and app, as far as the coordinator uses them *)

Show(w) == [w EXCEPT !.visible = TRUE, !.focused = TRUE]
Restore(w) == [w EXCEPT !.minimized = FALSE]
Focus(w) == [w EXCEPT !.focused = TRUE]

BeforeQuitHandlerKeepsFlag == willQuitApp

\* The 'before-quit' listener: the new value of state.willQuitApp.
BeforeQuitHandler == TRUE

\* app.quit(): unless a quit is already under way, Electron emits 'before-quit'
\* synchronously and starts closing the windows.
AppQuit ==
  /\ quitCalls' = quitCalls + 1
  /\ quitting' = TRUE
  /\ willQuitApp' = IF quitting THEN willQuitApp ELSE BeforeQuitHandler

\* A macrotask may start: the process lives and no promise reaction is queued.
MacroTask == alive /\ microtasks = <<>>

\* The reactions queued when state.extensionsServerAddress settles, in the order
\* they were registered: the catch handler (on rejection), the await of
\* finishApplicationInitialization, the replies ipcMain.handle owes.
RECURSIVE ReplyJobs(_, _)
ReplyJobs(requests, i) ==
  IF i > Len(requests) THEN <<>>
  ELSE (IF requests[i].reply = "awaiting" THEN <<Job("ipcReply", i)>> ELSE <<>>)
         \o ReplyJobs(requests, i + 1)

ReactionsAlwaysFatal(status) ==
  <<Job("catchHandler", 0)>>
    \o (IF finishPc = "awaiting" THEN <<Job("finishResume", 0)>> ELSE <<>>)
    \o ReplyJobs(ipcRequests, 1)

Reactions(status) ==
  (IF status = "rejected" THEN <<Job("catchHandler", 0)>> ELSE <<>>)
    \o (IF finishPc = "awaiting" THEN <<Job("finishResume", 0)>> ELSE <<>>)
    \o ReplyJobs(ipcRequests, 1)

----------------------------------------------------------------------------
(* Process start *)

\* The coordinator before initializeApplication has run.
InitCoordinator ==
  /\ alive = TRUE
  /\ initialized = FALSE
  /\ isPrimaryInstance = FALSE
  /\ willQuitApp = FALSE
  /\ windowState = "undefined"
  /\ window = NoWindow
  /\ windowsCreated = 0
  /\ teardownCalls = 0
  /\ ipcHandlers = {}
  /\ ipcRegistrations = 0
  /\ trayIcon = FALSE
  /\ serverStarts = 0
  /\ hostNamePromise = NoPromise
  /\ writeState = "idle"
  /\ writeContent = <<>>
  /\ writeOpened = FALSE
  /\ extensionsServerAddress = NoPromise
  /\ dialogs = 0
  /\ quitCalls = 0
  /\ quitting = FALSE
  /\ readyFired = FALSE
  /\ finishPc = "idle"
  /\ loadURLCalls = 0
  /\ microtasks = <<>>
  /\ ipcRequests = <<>>
  /\ updateChecks = FALSE
  /\ allClosedPending = FALSE
  /\ uncaughtErrors = 0
  /\ unhandledRejections = 0
  /\ lastEvent = Ev("start")

Init ==
  /\ platform \in Platforms
  /\ lockAvailable \in BOOLEAN
  /\ minimizeToTray \in BOOLEAN
  /\ webRoot \in WebRoots
  /\ startDocument \in StartDocuments
  /\ InitCoordinator
  /\ buildHost = <<>>
  /\ buildBase = <<>>
  /\ buildResult = "none"

\* initializeApplication: takes the lock, builds the state (which calls
\* initializeExtensionsServer, and that calls createExtensionsServer and suspends
\* at its first await), registers the catch handler and the event listeners.
InitializeApplication ==
  /\ MacroTask
  /\ ~initialized
  /\ initialized' = TRUE
  /\ isPrimaryInstance' = lockAvailable
  /\ willQuitApp' = FALSE
  /\ serverStarts' = serverStarts + 1
  /\ hostNamePromise' = Pending
  /\ extensionsServerAddress' = Pending
  /\ lastEvent' = Ev("initializeApplication")
  /\ UNCHANGED <<inputVars, buildVars, writeVars, windowVars, ipcVars,
                 quitCalls, quitting, alive, dialogs, readyFired, finishPc, loadURLCalls,
                 microtasks, updateChecks, uncaughtErrors, unhandledRejections>>

----------------------------------------------------------------------------
(* initializeExtensionsServer *)

\* createExtensionsServer's promise resolves with a host name.
ServerResolves ==
  /\ MacroTask
  /\ hostNamePromise.status = "pending"
  /\ \E h \in HostNames : hostNamePromise' = Resolved(h)
  /\ microtasks' = <<Job("extAfterHost", 0)>>
  /\ lastEvent' = Ev("serverResolves")
  /\ UNCHANGED <<inputVars, buildVars, serverStarts, writeVars,
                 extensionsServerAddress, windowVars, ipcVars, quitVars, alive,
                 initialized, isPrimaryInstance, dialogs, readyFired, finishPc,
                 loadURLCalls, updateChecks, uncaughtErrors, unhandledRejections>>

\* createExtensionsServer's promise rejects.
ServerRejects ==
  /\ MacroTask
  /\ hostNamePromise.status = "pending"
  /\ \E reason \in RejectionReasons : hostNamePromise' = Rejected(reason)
  /\ microtasks' = <<Job("extAfterHost", 0)>>
  /\ lastEvent' = Ev("serverRejects")
  /\ UNCHANGED <<inputVars, buildVars, serverStarts, writeVars,
                 extensionsServerAddress, windowVars, ipcVars, quitVars, alive,
                 initialized, isPrimaryInstance, dialogs, readyFired, finishPc,
                 loadURLCalls, updateChecks, uncaughtErrors, unhandledRejections>>

\* initializeExtensionsServer resumes after 'await hostNamePromise': with a host
\* name it builds the document and starts the write; when awaitsWrite it suspends
\* until the write completes, otherwise it returns the host name at once.  On a
\* rejection the function throws and state.extensionsServerAddress rejects.
ExtAfterHostBody(awaitsWrite) ==
  /\ alive
  /\ microtasks # <<>>
  /\ Head(microtasks).kind = "extAfterHost"
  /\ IF hostNamePromise.status = "resolved"
     THEN /\ writeState' = "pending"
          /\ writeContent' = buildIndexFile(hostNamePromise.value, webRoot)
          /\ IF awaitsWrite
             THEN /\ extensionsServerAddress' = extensionsServerAddress
                  /\ microtasks' = Tail(microtasks)
             ELSE /\ extensionsServerAddress' = Resolved(hostNamePromise.value)
                  /\ microtasks' = Tail(microtasks) \o Reactions("resolved")
     ELSE /\ extensionsServerAddress' = hostNamePromise
          /\ microtasks' = Tail(microtasks) \o Reactions("rejected")
          /\ UNCHANGED <<writeState, writeContent>>
  /\ lastEvent' = Ev("extAfterHost")
  /\ UNCHANGED <<inputVars, buildVars, serverStarts, hostNamePromise, startDocument,
                 writeOpened, windowVars, ipcVars, quitVars, alive, initialized,
                 isPrimaryInstance, dialogs, readyFired, finishPc, loadURLCalls,
                 updateChecks, uncaughtErrors, unhandledRejections>>

ExtAfterHostNoAwait == ExtAfterHostBody(FALSE)

ExtAfterHost == ExtAfterHostBody(TRUE)

\* fs.promises.writeFile is not one step: it opens the file with truncation,
\* writes the text in one or more chunks, closes the file and only then settles
\* its promise; the event loop turns in between and any listener may run.

\* The file is opened for writing: it exists and is empty, whatever it held.
WriteOpens ==
  /\ MacroTask
  /\ writeState = "pending"
  /\ ~writeOpened
  /\ writeOpened' = TRUE
  /\ startDocument' = <<>>
  /\ lastEvent' = Ev("writeOpens")
  /\ UNCHANGED <<inputVars, buildVars, serverStarts, hostNamePromise, writeState,
                 writeContent, extensionsServerAddress, windowVars, ipcVars, quitVars,
                 alive, initialized, isPrimaryInstance, dialogs, readyFired, finishPc,
                 loadURLCalls, microtasks, updateChecks, uncaughtErrors,
                 unhandledRejections>>

\* A chunk is written: the file holds a longer prefix of the text, up to all of it.
WriteData ==
  /\ MacroTask
  /\ writeState = "pending"
  /\ writeOpened
  /\ Len(startDocument) < Len(writeContent)
  /\ \E n \in (Len(startDocument) + 1)..Len(writeContent) :
       startDocument' = SubSeq(writeContent, 1, n)
  /\ lastEvent' = Ev("writeData")
  /\ UNCHANGED <<inputVars, buildVars, serverStarts, hostNamePromise, writeState,
                 writeContent, writeOpened, extensionsServerAddress, windowVars,
                 ipcVars, quitVars, alive, initialized, isPrimaryInstance, dialogs,
                 readyFired, finishPc, loadURLCalls, microtasks, updateChecks,
                 uncaughtErrors, unhandledRejections>>

\* The whole text is written and the file closed: writeFile's promise fulfils.
WriteSucceeds ==
  /\ MacroTask
  /\ writeState = "pending"
  /\ writeOpened
  /\ startDocument = writeContent
  /\ writeState' = "done"
  /\ microtasks' = <<Job("extAfterWrite", 0)>>
  /\ lastEvent' = Ev("writeSucceeds")
  /\ UNCHANGED <<inputVars, buildVars, serverStarts, hostNamePromise, writeContent,
                 startDocument, writeOpened, extensionsServerAddress, windowVars,
                 ipcVars, quitVars, alive, initialized, isPrimaryInstance, dialogs,
                 readyFired, finishPc, loadURLCalls, updateChecks, uncaughtErrors,
                 unhandledRejections>>

\* The open, a write or the close fails and writeFile's promise rejects with the
\* system's Error.  The file stays as the steps before the failure left it:
\* untouched, empty, partly written or complete.
WriteFails ==
  /\ MacroTask
  /\ writeState = "pending"
  /\ writeState' = "failed"
  /\ microtasks' = <<Job("extAfterWrite", 0)>>
  /\ lastEvent' = Ev("writeFails")
  /\ UNCHANGED <<inputVars, buildVars, serverStarts, hostNamePromise, writeContent,
                 startDocument, writeOpened, extensionsServerAddress, windowVars,
                 ipcVars, quitVars, alive, initialized, isPrimaryInstance, dialogs,
                 readyFired, finishPc, loadURLCalls, updateChecks, uncaughtErrors,
                 unhandledRejections>>

\* initializeExtensionsServer resumes after 'await writeFile(...)': it returns the
\* host name, or throws the write's error.
ExtAfterWrite ==
  /\ alive
  /\ microtasks # <<>>
  /\ Head(microtasks).kind = "extAfterWrite"
  /\ IF writeState = "done"
     THEN /\ extensionsServerAddress' = Resolved(hostNamePromise.value)
          /\ microtasks' = Tail(microtasks) \o Reactions("resolved")
     ELSE /\ extensionsServerAddress' = Rejected("Error")
          /\ microtasks' = Tail(microtasks) \o Reactions("rejected")
  /\ lastEvent' = Ev("extAfterWrite")
  /\ UNCHANGED <<inputVars, buildVars, serverStarts, hostNamePromise, writeVars, windowVars, ipcVars, quitVars, alive, initialized,
                 isPrimaryInstance, dialogs, readyFired, finishPc, loadURLCalls,
                 updateChecks, uncaughtErrors, unhandledRejections>>

\* The handler given to state.extensionsServerAddress.catch.  It calls
\* error.toString() first: on a reason without properties that throws a
\* TypeError, the dialog and app.quit() are not reached and the promise .catch
\* returned rejects, unhandled.
CatchHandler ==
  /\ alive
  /\ microtasks # <<>>
  /\ Head(microtasks).kind = "catchHandler"
  /\ IF HasToString(extensionsServerAddress.value[1])
     THEN /\ dialogs' = dialogs + 1
          /\ AppQuit
          /\ UNCHANGED unhandledRejections
     ELSE /\ unhandledRejections' = unhandledRejections + 1
          /\ UNCHANGED <<dialogs, quitVars>>
  /\ microtasks' = Tail(microtasks)
  /\ lastEvent' = Ev("catchHandler")
  /\ UNCHANGED <<inputVars, buildVars, serverVars, windowVars, ipcVars, alive, initialized,
                 isPrimaryInstance, readyFired, finishPc, loadURLCalls, updateChecks,
                 uncaughtErrors>>

----------------------------------------------------------------------------
(* The 'ready' listener and finishApplicationInitialization *)

\* The window createWindowState builds.
NewWindow == [exists |-> TRUE, visible |-> FALSE, minimized |-> FALSE,
              focused |-> FALSE, url |-> "none"]

ShouldCreateTrayOnAnyPlatform == minimizeToTray

\* The condition under which finishApplicationInitialization creates the tray icon.
ShouldCreateTray == (isWindows \/ isLinux) /\ minimizeToTray

\* The 'ready' listener.  A process that lost the lock quits and returns.  The
\* primary instance runs finishApplicationInitialization up to its await: it
\* creates the window bundle, stores it, registers the IPC listeners (handlers),
\* creates the tray icon when due, and (when awaitsAddress) suspends on
\* state.extensionsServerAddress; an await of a settled promise queues the
\* continuation at once.  Without the await it would load the start URL here.
ReadyBody(awaitsAddress, handlers) ==
  /\ MacroTask
  /\ initialized
  /\ ~readyFired
  /\ readyFired' = TRUE
  /\ lastEvent' = Ev("ready")
  /\ IF ~isPrimaryInstance
     THEN /\ AppQuit
          /\ UNCHANGED <<windowVars, ipcVars, finishPc, microtasks, loadURLCalls>>
     ELSE /\ windowsCreated' = windowsCreated + 1
          /\ windowState' = "set"
          /\ ipcHandlers' = ipcHandlers \cup handlers
          /\ ipcRegistrations' = ipcRegistrations + 1
          /\ trayIcon' = (trayIcon \/ ShouldCreateTray)
          /\ IF awaitsAddress
             THEN /\ window' = NewWindow
                  /\ finishPc' = "awaiting"
                  /\ microtasks' = IF extensionsServerAddress.status = "pending"
                                   THEN <<>> ELSE <<Job("finishResume", 0)>>
                  /\ UNCHANGED loadURLCalls
             ELSE /\ window' = [NewWindow EXCEPT !.url = "startUrl"]
                  /\ finishPc' = "done"
                  /\ loadURLCalls' = loadURLCalls + 1
                  /\ UNCHANGED microtasks
          /\ UNCHANGED <<teardownCalls, allClosedPending, ipcRequests, quitVars>>
  /\ UNCHANGED <<inputVars, buildVars, serverVars, alive, initialized, isPrimaryInstance, dialogs,
                 updateChecks, uncaughtErrors, unhandledRejections>>

ReadyWithoutAwait == ReadyBody(FALSE, AllIpcMessages)

ReadyMissingHandler == ReadyBody(TRUE, AllIpcMessages \ {"get-web-root"})

Ready == ReadyBody(TRUE, AllIpcMessages)

AwaitIgnoresRejection == TRUE

\* Whether 'await state.extensionsServerAddress' returns rather than throws.
AwaitSucceeded == extensionsServerAddress.status = "resolved"

\* finishApplicationInitialization resumes after 'await state.extensionsServerAddress':
\* on a rejection the await throws and the function's own promise rejects, unhandled;
\* otherwise it calls loadURL on the window it created, which throws when that
\* window has been destroyed meanwhile.
FinishResume ==
  /\ alive
  /\ microtasks # <<>>
  /\ Head(microtasks).kind = "finishResume"
  /\ microtasks' = Tail(microtasks)
  /\ lastEvent' = Ev("finishResume")
  /\ IF AwaitSucceeded
     THEN /\ loadURLCalls' = loadURLCalls + 1
          /\ IF window.exists
             THEN /\ window' = [window EXCEPT !.url = "startUrl"]
                  /\ finishPc' = "done"
                  /\ UNCHANGED unhandledRejections
             ELSE /\ finishPc' = "threw"
                  /\ unhandledRejections' = unhandledRejections + 1
                  /\ UNCHANGED window
     ELSE /\ finishPc' = "threw"
          /\ unhandledRejections' = unhandledRejections + 1
          /\ UNCHANGED <<window, loadURLCalls>>
  /\ UNCHANGED <<inputVars, buildVars, serverVars, windowState, windowsCreated, teardownCalls,
                 trayIcon, allClosedPending, ipcVars, quitVars, alive, initialized,
                 isPrimaryInstance, dialogs, readyFired, updateChecks, uncaughtErrors>>


----------------------------------------------------------------------------
(* The window's own events (window.ts) and the user *)

KeepWindowState == windowState

\* The teardown callback given to createWindowState: the new state.windowState.
Teardown == "undefined"

\* The window's 'close' listener keeps the window and hides it (possible only
\* while no quit was requested).
HideWindow ==
  /\ MacroTask
  /\ window.exists
  /\ ~willQuitApp
  /\ window.visible
  /\ window' = [window EXCEPT !.visible = FALSE, !.focused = FALSE]
  /\ lastEvent' = Ev("hideWindow")
  /\ UNCHANGED <<inputVars, buildVars, serverVars, windowState, windowsCreated, teardownCalls,
                 trayIcon, allClosedPending, ipcVars, quitVars, alive, initialized,
                 isPrimaryInstance, dialogs, readyFired, finishPc, loadURLCalls,
                 microtasks, updateChecks, uncaughtErrors, unhandledRejections>>

\* The window is destroyed; its 'closed' listener calls the teardown callback.
\* Electron emits 'window-all-closed' afterwards unless it is quitting.
WindowClosed ==
  /\ MacroTask
  /\ window.exists
  /\ window' = NoWindow
  /\ windowState' = Teardown
  /\ teardownCalls' = teardownCalls + 1
  /\ allClosedPending' = ~quitting
  /\ lastEvent' = Ev("windowClosed")
  /\ UNCHANGED <<inputVars, buildVars, serverVars, windowsCreated, trayIcon, ipcVars, quitVars,
                 alive, initialized, isPrimaryInstance, dialogs, readyFired, finishPc,
                 loadURLCalls, microtasks, updateChecks, uncaughtErrors,
                 unhandledRejections>>

\* The user or the window manager hides, minimizes, shows or unfocuses the window.
WindowStateChanges ==
  /\ MacroTask
  /\ window.exists
  /\ \E v \in BOOLEAN, m \in BOOLEAN, f \in BOOLEAN :
       /\ window' = [window EXCEPT !.visible = v, !.minimized = m, !.focused = f]
       /\ window' # window
  /\ lastEvent' = Ev("windowStateChanges")
  /\ UNCHANGED <<inputVars, buildVars, serverVars, windowState, windowsCreated, teardownCalls,
                 trayIcon, allClosedPending, ipcVars, quitVars, alive, initialized,
                 isPrimaryInstance, dialogs, readyFired, finishPc, loadURLCalls,
                 microtasks, updateChecks, uncaughtErrors, unhandledRejections>>

----------------------------------------------------------------------------
(* The app event listeners *)

SecondInstanceWindowNoRestore(w) ==
  Focus(IF ~w.visible THEN Show(w) ELSE w)

\* What the 'second-instance' listener does to an existing window.
SecondInstanceWindow(w) ==
  LET shown == IF ~w.visible THEN Show(w) ELSE w
      restored == IF shown.minimized THEN Restore(shown) ELSE shown
  IN Focus(restored)

\* A 'second-instance' listener that builds a new window when it finds none.
SecondInstanceRecreatesWindow ==
  /\ MacroTask
  /\ initialized
  /\ isPrimaryInstance
  /\ readyFired
  /\ IF windowState = "set"
     THEN /\ window' = SecondInstanceWindow(window)
          /\ UNCHANGED <<windowState, windowsCreated>>
     ELSE /\ window' = NewWindow
          /\ windowState' = "set"
          /\ windowsCreated' = windowsCreated + 1
  /\ lastEvent' = EvOn("second-instance", window)
  /\ UNCHANGED <<inputVars, buildVars, serverVars, teardownCalls,
                 trayIcon, allClosedPending, ipcVars, quitVars, alive, initialized,
                 isPrimaryInstance, dialogs, readyFired, finishPc, loadURLCalls,
                 microtasks, updateChecks, uncaughtErrors, unhandledRejections>>

\* The 'second-instance' listener; Electron delivers the event to the primary
\* instance, after 'ready'.
SecondInstance ==
  /\ MacroTask
  /\ initialized
  /\ isPrimaryInstance
  /\ readyFired
  /\ IF windowState = "set"
     THEN window' = SecondInstanceWindow(window)
     ELSE UNCHANGED window
  /\ lastEvent' = EvOn("second-instance", window)
  /\ UNCHANGED <<inputVars, buildVars, serverVars, windowState, windowsCreated, teardownCalls,
                 trayIcon, allClosedPending, ipcVars, quitVars, alive, initialized,
                 isPrimaryInstance, dialogs, readyFired, finishPc, loadURLCalls,
                 microtasks, updateChecks, uncaughtErrors, unhandledRejections>>

WindowAllClosedQuitsEverywhere == TRUE

\* Whether the 'window-all-closed' listener calls app.quit().
WindowAllClosedQuits == ~isMac

\* The 'window-all-closed' listener.
WindowAllClosed ==
  /\ MacroTask
  /\ initialized
  /\ allClosedPending
  /\ ~quitting
  /\ allClosedPending' = FALSE
  /\ IF WindowAllClosedQuits THEN AppQuit ELSE UNCHANGED quitVars
  /\ lastEvent' = Ev("window-all-closed")
  /\ UNCHANGED <<inputVars, buildVars, serverVars, windowState, window, windowsCreated,
                 teardownCalls, trayIcon, ipcVars, alive, initialized, isPrimaryInstance,
                 dialogs, readyFired, finishPc, loadURLCalls, microtasks, updateChecks,
                 uncaughtErrors, unhandledRejections>>

\* The user asks the application to quit: Electron emits 'before-quit', whose
\* listener sets state.willQuitApp, and starts closing the windows.
BeforeQuit ==
  /\ MacroTask
  /\ initialized
  /\ ~quitting
  /\ quitting' = TRUE
  /\ willQuitApp' = BeforeQuitHandler
  /\ lastEvent' = Ev("before-quit")
  /\ UNCHANGED <<inputVars, buildVars, serverVars, windowVars, ipcVars, quitCalls, alive,
                 initialized, isPrimaryInstance, dialogs, readyFired, finishPc,
                 loadURLCalls, microtasks, updateChecks, uncaughtErrors,
                 unhandledRejections>>

\* A window refuses to close and Electron abandons the quit; no listener of the
\* coordinator runs.
QuitCancelled ==
  /\ MacroTask
  /\ quitting
  /\ window.exists
  /\ quitting' = FALSE
  /\ lastEvent' = Ev("quitCancelled")
  /\ UNCHANGED <<inputVars, buildVars, serverVars, windowVars, ipcVars, willQuitApp, quitCalls,
                 alive, initialized, isPrimaryInstance, dialogs, readyFired, finishPc,
                 loadURLCalls, microtasks, updateChecks, uncaughtErrors,
                 unhandledRejections>>

ActivateWindowNotShown(w) == w

\* What the 'activate' listener does to the window of the bundle.
ActivateWindow(w) == Show(w)

\* The 'activate' listener (macOS).
Activate ==
  /\ MacroTask
  /\ initialized
  /\ isMac
  /\ IF windowState = "set"
     THEN /\ window' = ActivateWindow(window)
          /\ updateChecks' = TRUE
     ELSE UNCHANGED <<window, updateChecks>>
  /\ lastEvent' = EvOn("activate", window)
  /\ UNCHANGED <<inputVars, buildVars, serverVars, windowState, windowsCreated, teardownCalls,
                 trayIcon, allClosedPending, ipcVars, quitVars, alive, initialized,
                 isPrimaryInstance, dialogs, readyFired, finishPc, loadURLCalls,
                 microtasks, uncaughtErrors, unhandledRejections>>

\* The quit completes once no window is left: the process exits.
Terminate ==
  /\ MacroTask
  /\ quitting
  /\ ~window.exists
  /\ alive' = FALSE
  /\ lastEvent' = Ev("exit")
  /\ UNCHANGED <<inputVars, buildVars, serverVars, windowVars, ipcVars, quitVars, initialized,
                 isPrimaryInstance, dialogs, readyFired, finishPc, loadURLCalls,
                 microtasks, updateChecks, uncaughtErrors, unhandledRejections>>

----------------------------------------------------------------------------
(* The get-extensions-server-address channel *)

\* A handler that answers with whatever is known at the time of the call.
AddressHandlerPremature ==
  [future |-> FALSE,
   value |-> IF extensionsServerAddress.status = "resolved"
             THEN extensionsServerAddress.value ELSE <<"null">>]

\* What the listener of get-extensions-server-address returns: the promise
\* state.extensionsServerAddress itself.
AddressHandler == [future |-> TRUE, value |-> <<>>]

\* The window's content invokes the channel.  ipcMain.handle awaits what the
\* listener returned and replies when that settles; 'starts' counts the calls of
\* createExtensionsServer the listener makes.
IpcInvokeBody(returned, starts) ==
  /\ MacroTask
  /\ "get-extensions-server-address" \in ipcHandlers
  /\ window.exists
  /\ Len(ipcRequests) < MaxRequests
  /\ ipcRequests' = Append(ipcRequests,
                           [returned |-> returned,
                            askedWhile |-> extensionsServerAddress.status,
                            reply |-> "awaiting", value |-> <<>>])
  /\ microtasks' = IF ~returned.future \/ extensionsServerAddress.status # "pending"
                   THEN <<Job("ipcReply", Len(ipcRequests) + 1)>> ELSE <<>>
  /\ serverStarts' = serverStarts + starts
  /\ lastEvent' = Ev("ipcInvoke")
  /\ UNCHANGED <<inputVars, buildVars, hostNamePromise, writeVars,
                 extensionsServerAddress, windowVars, ipcHandlers, ipcRegistrations,
                 quitVars, alive, initialized, isPrimaryInstance, dialogs, readyFired,
                 finishPc, loadURLCalls, updateChecks, uncaughtErrors,
                 unhandledRejections>>

IpcInvokeRestartingServer == IpcInvokeBody(AddressHandler, 1)

IpcInvoke == IpcInvokeBody(AddressHandler, 0)

\* ipcMain.handle's await ends: the caller gets the value, or the error.
IpcReply ==
  /\ alive
  /\ microtasks # <<>>
  /\ Head(microtasks).kind = "ipcReply"
  /\ LET i == Head(microtasks).id
         r == ipcRequests[i]
     IN ipcRequests' =
          [ipcRequests EXCEPT ![i] =
             IF ~r.returned.future
             THEN [r EXCEPT !.reply = "replied", !.value = r.returned.value]
             ELSE IF extensionsServerAddress.status = "resolved"
                  THEN [r EXCEPT !.reply = "replied",
                                 !.value = extensionsServerAddress.value]
                  ELSE [r EXCEPT !.reply = "rejected"]]
  /\ microtasks' = Tail(microtasks)
  /\ lastEvent' = Ev("ipcReply")
  /\ UNCHANGED <<inputVars, buildVars, serverVars, windowVars, ipcHandlers, ipcRegistrations,
                 quitVars, alive, initialized, isPrimaryInstance, dialogs, readyFired,
                 finishPc, loadURLCalls, updateChecks, uncaughtErrors,
                 unhandledRejections>>

----------------------------------------------------------------------------

Next ==
  \/ InitializeApplication
  \/ ServerResolves
  \/ ServerRejects
  \/ ExtAfterHost
  \/ WriteOpens
  \/ WriteData
  \/ WriteSucceeds
  \/ WriteFails
  \/ ExtAfterWrite
  \/ CatchHandler
  \/ Ready
  \/ FinishResume
  \/ HideWindow
  \/ WindowClosed
  \/ WindowStateChanges
  \/ SecondInstance
  \/ WindowAllClosed
  \/ BeforeQuit
  \/ QuitCancelled
  \/ Activate
  \/ Terminate
  \/ IpcInvoke
  \/ IpcReply

Spec == Init /\ [][Next]_vars

----------------------------------------------------------------------------
(* buildIndexFile on its own: the arguments are drawn at the start, the call
   is the only step. *)

BuildAlphabet == {"/app", "$$", "$&", "$'", BaseToken}

BuildTexts == UNION {[1..n -> BuildAlphabet] : n \in 0..MaxTextLen}

InitBuild ==
  /\ platform = "linux"
  /\ lockAvailable = TRUE
  /\ minimizeToTray = FALSE
  /\ webRoot = <<"/app/root">>
  /\ startDocument = "absent"
  /\ InitCoordinator
  /\ buildHost \in BuildTexts
  /\ buildBase \in BuildTexts
  /\ buildResult = "none"

BuildCall ==
  /\ buildResult = "none"
  /\ buildResult' = buildIndexFile(buildHost, buildBase)
  /\ UNCHANGED <<inputVars, serverVars, windowVars, ipcVars, quitVars, alive,
                 initialized, isPrimaryInstance, dialogs, readyFired, finishPc,
                 loadURLCalls, microtasks, updateChecks, uncaughtErrors,
                 unhandledRejections, lastEvent, buildHost, buildBase>>

NextBuild == BuildCall

SpecBuild == InitBuild /\ [][NextBuild]_vars


----------------------------------------------------------------------------
(* Properties *)

\* C1 (as claimed): a process that did not get the single-instance lock creates no
\* window and invokes no bootstrap step: the extensions server is never started,
\* the start document is never written, no IPC listener is registered, no tray
\* icon is created.
C1_LockLostRunsNoBootstrapStep ==
  (initialized /\ ~isPrimaryInstance) =>
    /\ windowsCreated = 0
    /\ serverStarts = 0
    /\ writeState = "idle"
    /\ ~writeOpened
    /\ ipcHandlers = {}
    /\ ~trayIcon

\* C2 (as claimed): when the extensions-server startup rejects, the dialog is
\* shown exactly once, app.quit is requested and no window is ever created,
\* whatever the order of 'ready' and the rejection.
C2_RejectionNeverHasWindow ==
  /\ hostNamePromise.status = "rejected" => windowsCreated = 0
  /\ (hostNamePromise.status = "rejected" /\ microtasks = <<>>) =>
       (dialogs = 1 /\ quitCalls >= 1)

\* C3 (as claimed): no window exists while state.extensionsServerAddress is
\* still pending.
C3_NoWindowWhilePending ==
  extensionsServerAddress.status = "pending" => ~window.exists

\* C3 (amended): the start document is loaded into the window only after
\* state.extensionsServerAddress has resolved; the window itself exists from the
\* 'ready' event on, also while the promise is pending.
C3_LoadOnlyAfterResolved ==
  (loadURLCalls > 0 \/ window.url # "none") =>
    extensionsServerAddress.status = "resolved"

C3_Witness ==
  /\ window.exists
  /\ window.url = "startUrl"
  /\ extensionsServerAddress.status = "resolved"

\* C4: the start-document write begins only after createExtensionsServer has
\* resolved with a host name, and loadURL is called only after that write has
\* completed, never while it is pending or not yet started.
C4_WriteAfterHostLoadAfterWrite ==
  /\ writeState # "idle" =>
       (hostNamePromise.status = "resolved" /\ hostNamePromise.value \in HostNames)
  /\ loadURLCalls > 0 => (writeState = "done" /\ startDocument = writeContent)

C4_Witness ==
  /\ loadURLCalls = 1
  /\ writeState = "done"
  /\ finishPc = "done"

\* C5: all six IPC listeners are registered before the window begins loading the
\* start document: whenever loadURL has been called, every channel has its
\* listener.
C5_IpcRegisteredBeforeLoad ==
  (loadURLCalls > 0 \/ window.url # "none") =>
    (ipcHandlers = AllIpcMessages /\ Cardinality(ipcHandlers) = 6)

C5_Witness ==
  /\ window.url = "startUrl"
  /\ ipcHandlers = AllIpcMessages
  /\ ipcRegistrations = 1

\* C6: between handlers, state.windowState is set exactly when a window exists;
\* it goes from set to absent only in the teardown callback, at most once, and
\* every process that created a window has cleared it exactly once by the time
\* it exits.
C6_WindowStateIffWindow ==
  /\ [](/\ (windowState = "set") <=> window.exists
        /\ teardownCalls <= 1
        /\ ~alive => teardownCalls = windowsCreated)
  /\ [][(windowState = "set" /\ windowState' # "set") =>
          (lastEvent'.name = "windowClosed" /\ teardownCalls' = teardownCalls + 1)]_vars

C6_Witness ==
  /\ teardownCalls = 1
  /\ windowsCreated = 1
  /\ windowState = "undefined"
  /\ ~window.exists
  /\ ~alive

\* C7: createExtensionsServer is called exactly once per process; its promise and
\* state.extensionsServerAddress settle at most once; the written document, the
\* load, the fatal dialog and every reply rest on that one outcome.
C7_OneSharedServerStartup ==
  /\ [](/\ serverStarts = (IF initialized THEN 1 ELSE 0)
        /\ writeState # "idle" =>
             writeContent = buildIndexFile(hostNamePromise.value, webRoot)
        /\ extensionsServerAddress.status = "resolved" =>
             extensionsServerAddress.value = hostNamePromise.value
        /\ loadURLCalls > 0 => extensionsServerAddress.status = "resolved"
        /\ dialogs > 0 => extensionsServerAddress.status = "rejected"
        /\ \A i \in 1..Len(ipcRequests) :
             ipcRequests[i].reply = "replied" =>
               ipcRequests[i].value = hostNamePromise.value)
  /\ [][/\ hostNamePromise.status \in {"resolved", "rejected"} =>
             hostNamePromise' = hostNamePromise
        /\ extensionsServerAddress.status \in {"resolved", "rejected"} =>
             extensionsServerAddress' = extensionsServerAddress]_vars

C7_Witness ==
  /\ serverStarts = 1
  /\ loadURLCalls = 1
  /\ \E i \in 1..Len(ipcRequests) :
       /\ ipcRequests[i].reply = "replied"
       /\ ipcRequests[i].value = hostNamePromise.value

\* C8: a 'second-instance' event leaves an existing window visible, not
\* minimized and focused, and creates no window; with no window it changes
\* nothing and throws nothing.
C8_SecondInstanceFocusesOrNoop ==
  [][SecondInstance =>
       /\ windowsCreated' = windowsCreated
       /\ uncaughtErrors' = uncaughtErrors
       /\ windowState' = windowState
       /\ IF windowState = "set"
          THEN /\ window'.exists
               /\ window'.visible
               /\ ~window'.minimized
               /\ window'.focused
               /\ window'.url = window.url
          ELSE /\ window' = window
               /\ ~window'.exists
               /\ UNCHANGED <<serverVars, ipcVars, quitVars, alive, dialogs, finishPc,
                              loadURLCalls, microtasks, updateChecks,
                              unhandledRejections>>]_vars

C8_Witness ==
  /\ lastEvent.name = "second-instance"
  /\ lastEvent.pre.exists
  /\ ~lastEvent.pre.visible
  /\ lastEvent.pre.minimized
  /\ window.visible
  /\ ~window.minimized
  /\ window.focused
  /\ windowsCreated = 1

\* C9: the 'window-all-closed' listener requests a quit on every platform but
\* macOS; on macOS it requests none and leaves the process alive without a
\* window, also when 'before-quit' fired earlier and willQuitApp is already true.
C9_AllClosedQuitsExceptOnMac ==
  /\ [][WindowAllClosed =>
          IF isMac
          THEN UNCHANGED <<quitCalls, quitting, willQuitApp, alive>>
          ELSE quitCalls' = quitCalls + 1 /\ quitting' /\ willQuitApp']_vars
  /\ []((lastEvent.name = "window-all-closed" /\ isMac) =>
          (alive /\ ~quitting /\ ~window.exists /\ ~ENABLED Terminate))

C9_Witness ==
  /\ lastEvent.name = "window-all-closed"
  /\ isMac
  /\ willQuitApp
  /\ alive
  /\ ~quitting
  /\ quitCalls = 0
  /\ ~window.exists

\* C10: a get-extensions-server-address request handled while the address is
\* unresolved throws nothing and is answered with the shared promise: no reply
\* is sent while the promise is pending, and the reply, once sent, is exactly
\* the resolved host name, never a null or early value.
C10_PendingAddressRequestAwaits ==
  /\ uncaughtErrors = 0
  /\ \A i \in 1..Len(ipcRequests) :
       LET r == ipcRequests[i]
       IN r.askedWhile = "pending" =>
            /\ r.returned.future
            /\ extensionsServerAddress.status = "pending" => r.reply = "awaiting"
            /\ r.reply = "replied" =>
                 /\ extensionsServerAddress.status = "resolved"
                 /\ r.value = hostNamePromise.value
                 /\ r.value \in HostNames
            /\ r.reply = "rejected" => extensionsServerAddress.status = "rejected"

C10_Witness ==
  \E i \in 1..Len(ipcRequests) :
    /\ ipcRequests[i].askedWhile = "pending"
    /\ ipcRequests[i].reply = "replied"
    /\ ipcRequests[i].value = hostNamePromise.value
    /\ ipcRequests[i].value \in HostNames


\* C11 (as claimed): after a successful bootstrap the start document on disk is
\* the template with the resolved host name at the host placeholder and webRoot
\* at every base-path placeholder, and holds no placeholder any more, whatever
\* the host name and the base path.
C11_StartDocumentIsLiteralSubstitution ==
  (finishPc = "done" /\ loadURLCalls = 1) =>
    /\ startDocument = LiteralDocument(index, hostNamePromise.value, webRoot)
    /\ ~HasPlaceholder(startDocument)


\* C12 (as claimed): for every hostName and baseUrl, buildIndexFile returns the
\* template with the host placeholder replaced by hostName and every base-path
\* placeholder by baseUrl, each taken literally, and nothing else changed.
C12_BuildIsLiteralSubstitution ==
  buildResult # "none" =>
    buildResult = LiteralDocument(index, buildHost, buildBase)


\* C14: willQuitApp is false until the first 'before-quit' event, becomes true
\* with it and is never reset, so every step after 'before-quit', a window close
\* or teardown among them, finds it true.
C14_WillQuitAppSetOnceByBeforeQuit ==
  /\ [](/\ ~initialized => ~willQuitApp
        /\ quitting => willQuitApp
        /\ quitCalls > 0 => willQuitApp)
  /\ [][/\ willQuitApp => willQuitApp'
        /\ (~quitting /\ quitting') => willQuitApp'
        /\ (~willQuitApp /\ willQuitApp') => (~quitting /\ quitting')]_vars

C14_Witness ==
  /\ willQuitApp
  /\ ~quitting
  /\ lastEvent.name = "windowClosed"
  /\ teardownCalls = 1

\* C15: an 'activate' event shows the window and triggers an update check when
\* state.windowState is set; when it is absent the listener does nothing and
\* creates no window.
C15_ActivateShowsOrNoop ==
  [][Activate =>
       /\ windowsCreated' = windowsCreated
       /\ windowState' = windowState
       /\ uncaughtErrors' = uncaughtErrors
       /\ IF windowState = "set"
          THEN /\ window'.exists
               /\ window'.visible
               /\ updateChecks'
               /\ window'.url = window.url
          ELSE /\ ~window'.exists
               /\ UNCHANGED <<window, updateChecks, serverVars, ipcVars, quitVars,
                              alive, dialogs, finishPc, loadURLCalls, microtasks,
                              unhandledRejections>>]_vars

C15_Witness ==
  /\ lastEvent.name = "activate"
  /\ lastEvent.pre.exists
  /\ ~lastEvent.pre.visible
  /\ window.visible
  /\ updateChecks
  /\ windowsCreated = 1

\* C16 (as claimed): the dialog-and-quit path is entered only when the
\* extensions-server startup fails; a failed write of the start document after a
\* successful startup does not enter it.
C16_FatalOnlyOnServerFailure ==
  dialogs > 0 => hostNamePromise.status = "rejected"

\* C16 (amended): the dialog-and-quit path is entered only when
\* state.extensionsServerAddress rejects, that is when the server startup fails
\* or the write of the start document fails, and on no other occasion; a failed
\* write after a successful startup does enter it.
C16_FatalOnlyOnAddressRejection ==
  /\ dialogs > 0 =>
       /\ extensionsServerAddress.status = "rejected"
       /\ hostNamePromise.status = "rejected" \/ writeState = "failed"
  /\ (writeState = "failed" /\ microtasks = <<>>) => (dialogs = 1 /\ quitCalls >= 1)
  /\ extensionsServerAddress.status = "resolved" => dialogs = 0

C16_Witness ==
  /\ dialogs = 1
  /\ quitCalls >= 1
  /\ hostNamePromise.status = "resolved"
  /\ writeState = "failed"

\* C17: bootstrap creates the tray icon exactly when the platform is Windows or
\* Linux and the user wants minimize-to-tray; never on macOS, never with the
\* setting off, never outside bootstrap.
C17_TrayIffSupportedAndWanted ==
  trayIcon <=> (windowsCreated > 0 /\ platform \in {"win32", "linux"} /\ minimizeToTray)

C17_Witness ==
  /\ trayIcon
  /\ platform = "linux"
  /\ minimizeToTray
  /\ finishPc = "awaiting"

\* C18 (as claimed): loadURL is only called on a window that still exists: when
\* the teardown callback ran while finishApplicationInitialization was awaiting
\* the address, the resumed function does not call loadURL.
C18_LoadOnlyOnLiveWindow ==
  (lastEvent.name = "finishResume" /\ loadURLCalls > 0) =>
    (window.exists /\ windowState = "set")

\* C19: the window bundle is created at most once and the IPC listeners are
\* registered at most once; once teardown has cleared state.windowState it stays
\* absent, whatever event follows.
C19_OneWindowOneRegistration ==
  /\ windowsCreated <= 1
  /\ ipcRegistrations <= 1
  /\ ipcRegistrations = windowsCreated
  /\ teardownCalls > 0 => (windowState = "undefined" /\ ~window.exists)

C19_Witness ==
  /\ teardownCalls = 1
  /\ lastEvent.name = "second-instance"
  /\ windowState = "undefined"
  /\ windowsCreated = 1
  /\ ipcRegistrations = 1

\* C20: when state.extensionsServerAddress rejects, by a failed server startup or
\* a failed write of the start document, loadURL is never called.
C20_NoLoadAfterRejection ==
  extensionsServerAddress.status = "rejected" =>
    (loadURLCalls = 0 /\ window.url = "none" /\ finishPc # "done")

C20_Witness ==
  /\ extensionsServerAddress.status = "rejected"
  /\ writeState = "failed"
  /\ finishPc = "threw"
  /\ windowsCreated = 1
  /\ loadURLCalls = 0

====
